---- MODULE Spec2Model ----
(***************************************************************************)
(* Controle Financeiro backend (src/backend/server.py): the document       *)
(* collections, the CRUD handlers, the limit check run by                  *)
(* create_transaction and the dashboard summary.                           *)
(*                                                                         *)
(* Every `await db....` of a handler is one atomic step of the store, and  *)
(* the steps of different requests interleave.  Amounts are integers and   *)
(* a percentage is the exact rational total*100/limit (the code uses       *)
(* binary floating point; rounding is outside this model).  Free text that *)
(* no handler reads (description, title) and created_at are left out.      *)
(***************************************************************************)
EXTENDS Integers, Sequences, FiniteSets, TLC

VARIABLES
    categories,     \* db.categories: sequence of documents, in insertion order
    transactions,   \* db.transactions
    goals,          \* db.goals
    alerts,         \* db.alerts
    nextId,         \* ids handed out so far, per collection (uuid4 is fresh)
    now,            \* the wall-clock date (datetime.now(timezone.utc).date())
    reqs,           \* in-flight create_transaction requests, one per slot
    dash,           \* the in-flight get_dashboard_summary request
    resp            \* status code of the response sent last

vars == <<categories, transactions, goals, alerts, nextId, now, reqs, dash, resp>>

-----------------------------------------------------------------------------
(* Bounds of the model.                                                    *)

MaxTxLimit == 2      \* transactions created in SpecLimit
MaxTxDash == 2       \* transactions created in SpecDash
MaxTxRecent == 11    \* transactions created in SpecRecent
MaxTx == 2           \* transactions created in Spec
MaxTxBurst == 3      \* transactions created in SpecBurst
MaxCat == 1          \* categories created in Spec
MaxCatDash == 2      \* categories created in SpecDash
MaxGoal == 2         \* goals created in SpecCrud

-----------------------------------------------------------------------------
(* Values.                                                                 *)

\* Optional[...] fields: None is the empty sequence, a value v is <<v>>.
None == <<>>
Some(v) == <<v>>

INCOME == "income"
EXPENSE == "expense"

DefaultColor == "#3B82F6"

\* A category_id no category ever had (a client may send any string).
UnknownCategory == 0

Min(a, b) == IF a <= b THEN a ELSE b

-----------------------------------------------------------------------------
(* Dates.  A date is <<year, month, day>>; the store holds dates as ISO    *)
(* strings, modelled as sequences of character codes.                      *)

Dash == 45
Digit(n) == 48 + n

\* date.isoformat(): "YYYY-MM-DD"
IsoFormat(d) ==
    <<Digit(d[1] \div 1000), Digit((d[1] \div 100) % 10),
      Digit((d[1] \div 10) % 10), Digit(d[1] % 10), Dash,
      Digit(d[2] \div 10), Digit(d[2] % 10), Dash,
      Digit(d[3] \div 10), Digit(d[3] % 10)>>

\* datetime.fromisoformat(s).date()
FromIsoFormat(s) ==
    <<(s[1] - 48) * 1000 + (s[2] - 48) * 100 + (s[3] - 48) * 10 + (s[4] - 48),
      (s[6] - 48) * 10 + (s[7] - 48),
      (s[9] - 48) * 10 + (s[10] - 48)>>

\* Comparison of two strings by code point, as the store's $gte does.
StrLess(a, b) ==
    \/ \E i \in 1..Min(Len(a), Len(b)) :
          /\ a[i] < b[i]
          /\ \A j \in 1..(i - 1) : a[j] = b[j]
    \/ /\ Len(a) < Len(b)
       /\ \A j \in 1..Len(a) : a[j] = b[j]

StrGe(a, b) == ~StrLess(a, b)

\* Comparison of two date objects.
DateLess(a, b) ==
    \/ a[1] < b[1]
    \/ a[1] = b[1] /\ a[2] < b[2]
    \/ a[1] = b[1] /\ a[2] = b[2] /\ a[3] < b[3]

DateGe(a, b) == ~DateLess(a, b)

\* d.replace(day=1)
ReplaceDay1(d) == <<d[1], d[2], 1>>

\* The first day of the month after d's month.
NextMonthStart(d) == IF d[2] = 12 THEN <<d[1] + 1, 1, 1>> ELSE <<d[1], d[2] + 1, 1>>

-----------------------------------------------------------------------------
(* Sequences.                                                              *)

\* cursor.to_list(n): at most the first n documents
ToList(s, n) == SubSeq(s, 1, Min(Len(s), n))

RECURSIVE SelectSeqBy(_, _)
\* the documents of s matching Test, in order (Test is applied by index)
SelectSeqBy(s, keep) ==
    IF s = <<>> THEN <<>>
    ELSE IF keep[1] THEN <<s[1]>> \o SelectSeqBy(Tail(s), Tail(keep))
         ELSE SelectSeqBy(Tail(s), Tail(keep))

\* index of the first document of coll whose id is id, 0 when there is none
FirstIndex(coll, id) ==
    IF \E i \in 1..Len(coll) : coll[i].id = id
    THEN CHOOSE i \in 1..Len(coll) :
            /\ coll[i].id = id
            /\ \A j \in 1..(i - 1) : coll[j].id # id
    ELSE 0

\* collection.find_one({"id": id}): None or the document
FindOne(coll, id) ==
    IF FirstIndex(coll, id) = 0 THEN None ELSE Some(coll[FirstIndex(coll, id)])

\* the delete written to drop the oldest document whatever the id
DeleteOne_Oldest(coll, id) ==
    Tail(coll)

\* collection.delete_one({"id": id}) on a collection that holds it
DeleteOne(coll, id) ==
    SubSeq(coll, 1, FirstIndex(coll, id) - 1)
        \o SubSeq(coll, FirstIndex(coll, id) + 1, Len(coll))

RECURSIVE SumSeq(_)
\* sum(x for x in s)
SumSeq(s) == IF s = <<>> THEN 0 ELSE s[1] + SumSeq(Tail(s))

-----------------------------------------------------------------------------
(* Documents.                                                              *)

\* Category(**category.dict()) as stored: the id and the CategoryCreate fields
CategoryDoc(id, c) ==
    [id |-> id, name |-> c.name, type |-> c.type,
     limit_enabled |-> c.limit_enabled, monthly_limit |-> c.monthly_limit,
     color |-> c.color]

\* prepare_for_mongo(Transaction(...).dict()): the date becomes an ISO string
TransactionDoc(id, t) ==
    [id |-> id, amount |-> t.amount, type |-> t.type,
     category_id |-> t.category_id, date |-> IsoFormat(t.date)]

\* prepare_for_mongo(Goal(...).dict()): current_amount defaults to 0
GoalDoc(id, g) ==
    [id |-> id, target_amount |-> g.target_amount, current_amount |-> 0,
     target_date |-> IF g.target_date = None THEN None
                     ELSE Some(IsoFormat(g.target_date[1]))]

-----------------------------------------------------------------------------
(* The limit check (check_category_limits).                                *)

\* Python truth value of category.get('monthly_limit'): None and 0 are false
Truthy(opt) == opt # None /\ opt[1] # 0

\* the early return without its test of limit_enabled
LimitUsable_IgnoresEnabled(found) ==
    /\ found # None
    /\ Truthy(found[1].monthly_limit)

\* `not category or not limit_enabled or not monthly_limit` is false
LimitUsable(found) ==
    /\ found # None
    /\ found[1].limit_enabled
    /\ Truthy(found[1].monthly_limit)

\* the filter of the expenses query, on one stored transaction
ExpenseInMonth(t, category_id, transaction_date) ==
    /\ t.category_id = category_id
    /\ t.type = EXPENSE
    /\ StrGe(t.date, IsoFormat(ReplaceDay1(transaction_date)))

QueryCap == 1000

\* db.transactions.find({...}).to_list(1000), on the store as it is now
MonthExpenses(category_id, transaction_date) ==
    ToList(SelectSeqBy(transactions,
                       [i \in 1..Len(transactions) |->
                          ExpenseInMonth(transactions[i], category_id,
                                         transaction_date)]),
           QueryCap)

\* sum(t['amount'] for t in month_expenses)
TotalSpent(month_expenses) ==
    SumSeq([i \in 1..Len(month_expenses) |-> month_expenses[i].amount])

\* (total_spent / limit) * 100, as the exact fraction num/den (den # 0)
Percentage(total_spent, limit) == [num |-> total_spent * 100, den |-> limit]

\* percentage >= k
PctGe(p, k) == IF p.den > 0 THEN p.num >= k * p.den ELSE p.num <= k * p.den

WarnThreshold == 80
ExceededThreshold == 100

\* the two f-strings: the variant and the values it renders
AlertMessage(percentage, total_spent, limit, name) ==
    IF PctGe(percentage, ExceededThreshold)
    THEN [variant |-> "exceeded", name |-> name,
          shown |-> <<total_spent, limit>>]
    ELSE [variant |-> "warning", name |-> name,
          shown |-> <<percentage.num, percentage.den>>]

\* the test written `percentage > 80`
ShouldAlert_Strict(percentage) ==
    IF percentage.den > 0
    THEN percentage.num > WarnThreshold * percentage.den
    ELSE percentage.num < WarnThreshold * percentage.den

\* `if percentage >= 80`
ShouldAlert(percentage) == PctGe(percentage, WarnThreshold)

\* is_read of a new Alert (the field's default)
NewIsRead == FALSE

\* prepare_for_mongo(Alert(...).dict()) without its id
NewAlert(category, category_id, total_spent, transaction_date) ==
    [category_id |-> category_id,
     message |-> AlertMessage(Percentage(total_spent, category.monthly_limit[1]),
                              total_spent, category.monthly_limit[1],
                              category.name),
     amount_spent |-> total_spent,
     limit_amount |-> category.monthly_limit[1],
     percentage |-> Percentage(total_spent, category.monthly_limit[1]),
     date |-> IsoFormat(transaction_date),
     is_read |-> NewIsRead]

-----------------------------------------------------------------------------
(* Requests.                                                               *)

Slots == {1, 2}

NoDate == <<0, 0, 0>>

IdleReq ==
    [pc |-> "idle", tx |-> 0, type |-> EXPENSE, category_id |-> 0,
     date |-> NoDate, found |-> None, total_spent |-> 0, alert |-> None,
     inserted |-> 0]

IdleDash ==
    [pc |-> "idle", now |-> NoDate, transactions |-> <<>>, categories |-> <<>>,
     response |-> None]

Init ==
    /\ categories = <<>>
    /\ transactions = <<>>
    /\ goals = <<>>
    /\ alerts = <<>>
    /\ nextId = [categories |-> 1, transactions |-> 1, goals |-> 1, alerts |-> 1]
    /\ now \in {<<2024, 12, 31>>}
    /\ reqs = [r \in Slots |-> IdleReq]
    /\ dash = IdleDash
    /\ resp = 200

-----------------------------------------------------------------------------
(* Category handlers.                                                      *)

\* POST /categories
CreateCategory(c) ==
    /\ categories' = Append(categories, CategoryDoc(nextId.categories, c))
    /\ nextId' = [nextId EXCEPT !.categories = @ + 1]
    /\ resp' = 200
    /\ UNCHANGED <<transactions, goals, alerts, now, reqs, dash>>

\* PUT /categories/{category_id}: $set of every CategoryCreate field
UpdateCategory(category_id, c) ==
    /\ IF FirstIndex(categories, category_id) = 0
       THEN /\ resp' = 404
            /\ UNCHANGED categories
       ELSE /\ categories' = [categories EXCEPT
                                ![FirstIndex(categories, category_id)] =
                                    CategoryDoc(category_id, c)]
            /\ resp' = 200
    /\ UNCHANGED <<transactions, goals, alerts, nextId, now, reqs, dash>>

\* DELETE /categories/{category_id}
DeleteCategory(category_id) ==
    /\ IF FirstIndex(categories, category_id) = 0
       THEN /\ resp' = 404
            /\ UNCHANGED categories
       ELSE /\ categories' = DeleteOne(categories, category_id)
            /\ resp' = 200
    /\ UNCHANGED <<transactions, goals, alerts, nextId, now, reqs, dash>>

-----------------------------------------------------------------------------
(* Transaction handlers.                                                   *)

\* the handler written to run the limit check without having inserted the transaction
CreateTransaction_Unwritten(r, t) ==
    /\ reqs[r].pc = "idle"
    /\ nextId' = [nextId EXCEPT !.transactions = @ + 1]
    /\ reqs' = [reqs EXCEPT ![r] =
                  [IdleReq EXCEPT
                     !.pc = IF t.type = EXPENSE THEN "find_category" ELSE "done",
                     !.tx = nextId.transactions,
                     !.type = t.type,
                     !.category_id = t.category_id,
                     !.date = t.date]]
    /\ UNCHANGED <<categories, transactions, goals, alerts, now, dash, resp>>

\* the handler written to run the limit check for a transaction of either type
CreateTransaction_CheckAlways(r, t) ==
    /\ reqs[r].pc = "idle"
    /\ transactions' = Append(transactions, TransactionDoc(nextId.transactions, t))
    /\ nextId' = [nextId EXCEPT !.transactions = @ + 1]
    /\ reqs' = [reqs EXCEPT ![r] =
                  [IdleReq EXCEPT
                     !.pc = "find_category",
                     !.tx = nextId.transactions,
                     !.type = t.type,
                     !.category_id = t.category_id,
                     !.date = t.date]]
    /\ UNCHANGED <<categories, goals, alerts, now, dash, resp>>

\* POST /transactions up to the insert; an expense goes on to the limit check
CreateTransaction(r, t) ==
    /\ reqs[r].pc = "idle"
    /\ transactions' = Append(transactions, TransactionDoc(nextId.transactions, t))
    /\ nextId' = [nextId EXCEPT !.transactions = @ + 1]
    /\ reqs' = [reqs EXCEPT ![r] =
                  [IdleReq EXCEPT
                     !.pc = IF t.type = EXPENSE THEN "find_category" ELSE "done",
                     !.tx = nextId.transactions,
                     !.type = t.type,
                     !.category_id = t.category_id,
                     !.date = t.date]]
    /\ UNCHANGED <<categories, goals, alerts, now, dash, resp>>

\* check_category_limits: find_one of the category and the early return
CheckFindCategory(r) ==
    /\ reqs[r].pc = "find_category"
    /\ reqs' = [reqs EXCEPT ![r] =
                  [@ EXCEPT
                     !.found = FindOne(categories, reqs[r].category_id),
                     !.pc = IF LimitUsable(FindOne(categories, reqs[r].category_id))
                            THEN "find_expenses" ELSE "done"]]
    /\ UNCHANGED <<categories, transactions, goals, alerts, nextId, now, dash, resp>>

\* check_category_limits: the expenses query, the percentage and the decision
CheckFindExpenses(r) ==
    /\ reqs[r].pc = "find_expenses"
    /\ LET total_spent == TotalSpent(MonthExpenses(reqs[r].category_id, reqs[r].date))
           limit == reqs[r].found[1].monthly_limit[1]
       IN  reqs' = [reqs EXCEPT ![r] =
                      IF limit = 0
                      THEN [@ EXCEPT !.total_spent = total_spent, !.pc = "error"]
                      ELSE IF ShouldAlert(Percentage(total_spent, limit))
                      THEN [@ EXCEPT
                              !.total_spent = total_spent,
                              !.alert = Some(NewAlert(reqs[r].found[1],
                                                      reqs[r].category_id,
                                                      total_spent, reqs[r].date)),
                              !.pc = "insert_alert"]
                      ELSE [@ EXCEPT !.total_spent = total_spent, !.pc = "done"]]
    /\ UNCHANGED <<categories, transactions, goals, alerts, nextId, now, dash, resp>>

\* the insert written to skip a category that already has an alert
CheckInsertAlert_Dedup(r) ==
    /\ reqs[r].pc = "insert_alert"
    /\ IF \E i \in 1..Len(alerts) : alerts[i].category_id = reqs[r].category_id
       THEN UNCHANGED <<alerts, nextId>>
       ELSE /\ alerts' = Append(alerts, [id |-> nextId.alerts] @@ reqs[r].alert[1])
            /\ nextId' = [nextId EXCEPT !.alerts = @ + 1]
    /\ reqs' = [reqs EXCEPT ![r] = [@ EXCEPT !.inserted = @ + 1, !.pc = "done"]]
    /\ UNCHANGED <<categories, transactions, goals, now, dash, resp>>

\* check_category_limits: db.alerts.insert_one
CheckInsertAlert(r) ==
    /\ reqs[r].pc = "insert_alert"
    /\ alerts' = Append(alerts, [id |-> nextId.alerts] @@ reqs[r].alert[1])
    /\ nextId' = [nextId EXCEPT !.alerts = @ + 1]
    /\ reqs' = [reqs EXCEPT ![r] = [@ EXCEPT !.inserted = @ + 1, !.pc = "done"]]
    /\ UNCHANGED <<categories, transactions, goals, now, dash, resp>>

\* create_transaction returns (or the request ends with a server error)
CreateTransactionReturn(r) ==
    /\ reqs[r].pc \in {"done", "error"}
    /\ resp' = IF reqs[r].pc = "done" THEN 200 ELSE 500
    /\ reqs' = [reqs EXCEPT ![r] = IdleReq]
    /\ UNCHANGED <<categories, transactions, goals, alerts, nextId, now, dash>>

\* PUT /transactions/{transaction_id}: $set of every TransactionCreate field
UpdateTransaction(transaction_id, t) ==
    /\ IF FirstIndex(transactions, transaction_id) = 0
       THEN /\ resp' = 404
            /\ UNCHANGED transactions
       ELSE /\ transactions' = [transactions EXCEPT
                                  ![FirstIndex(transactions, transaction_id)] =
                                      TransactionDoc(transaction_id, t)]
            /\ resp' = 200
    /\ UNCHANGED <<categories, goals, alerts, nextId, now, reqs, dash>>

\* DELETE /transactions/{transaction_id}
DeleteTransaction(transaction_id) ==
    /\ IF FirstIndex(transactions, transaction_id) = 0
       THEN /\ resp' = 404
            /\ UNCHANGED transactions
       ELSE /\ transactions' = DeleteOne(transactions, transaction_id)
            /\ resp' = 200
    /\ UNCHANGED <<categories, goals, alerts, nextId, now, reqs, dash>>

-----------------------------------------------------------------------------
(* Goal handlers.                                                          *)

\* POST /goals
CreateGoal(g) ==
    /\ goals' = Append(goals, GoalDoc(nextId.goals, g))
    /\ nextId' = [nextId EXCEPT !.goals = @ + 1]
    /\ resp' = 200
    /\ UNCHANGED <<categories, transactions, alerts, now, reqs, dash>>

\* PUT /goals/{goal_id}: $set of the GoalCreate fields, current_amount is kept
UpdateGoal(goal_id, g) ==
    /\ IF FirstIndex(goals, goal_id) = 0
       THEN /\ resp' = 404
            /\ UNCHANGED goals
       ELSE /\ goals' = [goals EXCEPT
                           ![FirstIndex(goals, goal_id)] =
                               [GoalDoc(goal_id, g) EXCEPT
                                  !.current_amount =
                                      goals[FirstIndex(goals, goal_id)].current_amount]]
            /\ resp' = 200
    /\ UNCHANGED <<categories, transactions, alerts, nextId, now, reqs, dash>>

\* DELETE /goals/{goal_id}
DeleteGoal(goal_id) ==
    /\ IF FirstIndex(goals, goal_id) = 0
       THEN /\ resp' = 404
            /\ UNCHANGED goals
       ELSE /\ goals' = DeleteOne(goals, goal_id)
            /\ resp' = 200
    /\ UNCHANGED <<categories, transactions, alerts, nextId, now, reqs, dash>>

-----------------------------------------------------------------------------
(* Alert handlers.                                                         *)

\* the update written as a toggle of is_read
MarkAlertAsRead_Toggle(alert_id) ==
    /\ IF FirstIndex(alerts, alert_id) = 0
       THEN /\ resp' = 404
            /\ UNCHANGED alerts
       ELSE /\ alerts' = [alerts EXCEPT
                            ![FirstIndex(alerts, alert_id)] =
                                [@ EXCEPT !.is_read = ~@]]
            /\ resp' = 200
    /\ UNCHANGED <<categories, transactions, goals, nextId, now, reqs, dash>>

\* PUT /alerts/{alert_id}/read: $set {"is_read": True}
MarkAlertAsRead(alert_id) ==
    /\ IF FirstIndex(alerts, alert_id) = 0
       THEN /\ resp' = 404
            /\ UNCHANGED alerts
       ELSE /\ alerts' = [alerts EXCEPT
                            ![FirstIndex(alerts, alert_id)] =
                                [@ EXCEPT !.is_read = TRUE]]
            /\ resp' = 200
    /\ UNCHANGED <<categories, transactions, goals, nextId, now, reqs, dash>>

-----------------------------------------------------------------------------
(* The dashboard summary (get_dashboard_summary).                          *)

TransactionsCap == 10000
CategoriesCap == 1000
RecentCount == 10

\* parse_from_mongo(t): the stored ISO string becomes a date again
ParseFromMongo(t) == [t EXCEPT !.date = FromIsoFormat(t.date)]

\* the snapshot of db.transactions the handler works on
ParsedTransactions(raw) ==
    [i \in 1..Len(ToList(raw, TransactionsCap)) |-> ParseFromMongo(raw[i])]

\* the filter with the month's end added: current_month <= date < next month
InCurrentMonth_Bounded(t, current_month) ==
    DateGe(t.date, current_month) /\ DateLess(t.date, NextMonthStart(current_month))

\* t['date'] >= current_month
InCurrentMonth(t, current_month) == DateGe(t.date, current_month)

\* sum(t['amount'] for t in transactions if t['type'] == type)
TotalOf(txs, type) ==
    SumSeq([i \in 1..Len(txs) |-> IF txs[i].type = type THEN txs[i].amount ELSE 0])

\* sum(... if t['type'] == type and t['date'] >= current_month)
MonthlyOf(txs, type, current_month) ==
    SumSeq([i \in 1..Len(txs) |->
              IF txs[i].type = type /\ InCurrentMonth(txs[i], current_month)
              THEN txs[i].amount ELSE 0])

\* the balance with the expenses added instead of subtracted
Balance_Added(income, expenses) == income + expenses

\* total_income - total_expenses, monthly_income - monthly_expenses
Balance(income, expenses) == income - expenses

\* `=` written for `+=`: the last amount replaces the sum
AddSpending_Overwrite(spending, cat_id, amount) ==
    IF \E i \in 1..Len(spending) : spending[i][1] = cat_id
    THEN [i \in 1..Len(spending) |->
            IF spending[i][1] = cat_id THEN <<cat_id, amount>> ELSE spending[i]]
    ELSE Append(spending, <<cat_id, amount>>)

\* category_spending[cat_id] += amount on a defaultdict(float): the dict is a
\* sequence of <<key, value>> in insertion order
AddSpending(spending, cat_id, amount) ==
    IF \E i \in 1..Len(spending) : spending[i][1] = cat_id
    THEN [i \in 1..Len(spending) |->
            IF spending[i][1] = cat_id
            THEN <<cat_id, spending[i][2] + amount>> ELSE spending[i]]
    ELSE Append(spending, <<cat_id, 0 + amount>>)

RECURSIVE CategorySpending(_, _)
\* the loop over transactions that fills category_spending
CategorySpending(txs, current_month) ==
    IF txs = <<>> THEN <<>>
    ELSE LET t == txs[Len(txs)]
             before == CategorySpending(SubSeq(txs, 1, Len(txs) - 1), current_month)
         IN  IF t.type = EXPENSE /\ InCurrentMonth(t, current_month)
             THEN AddSpending(before, t.category_id, t.amount)
             ELSE before

\* cat_id in categories_dict
InCategoriesDict(cats, cat_id) == \E i \in 1..Len(cats) : cats[i].id = cat_id

\* categories_dict[cat_id]: the last document with that id wins
CategoriesDictGet(cats, cat_id) ==
    cats[CHOOSE i \in 1..Len(cats) :
            /\ cats[i].id = cat_id
            /\ \A j \in (i + 1)..Len(cats) : cats[j].id # cat_id]

\* one category_spending item kept in category_data?
KeepSpending(cats, item) == InCategoriesDict(cats, item[1])

\* category_data: the items of category_spending whose category exists
CategoryData(spending, cats) ==
    LET kept == SelectSeqBy(spending,
                            [i \in 1..Len(spending) |-> KeepSpending(cats, spending[i])])
    IN  [i \in 1..Len(kept) |->
           [category |-> CategoriesDictGet(cats, kept[i][1]).name,
            amount |-> kept[i][2],
            color |-> CategoriesDictGet(cats, kept[i][1]).color]]

\* x put in front of the elements with its own date: the order of ties is lost
InsertByDateDesc_Unstable(sorted, x) ==
    LET k == Cardinality({i \in 1..Len(sorted) : DateLess(x.date, sorted[i].date)})
    IN  SubSeq(sorted, 1, k) \o <<x>> \o SubSeq(sorted, k + 1, Len(sorted))

\* sorted so far, with x put behind every element whose date is >= x's
InsertByDateDesc(sorted, x) ==
    LET k == Cardinality({i \in 1..Len(sorted) : DateGe(sorted[i].date, x.date)})
    IN  SubSeq(sorted, 1, k) \o <<x>> \o SubSeq(sorted, k + 1, Len(sorted))

RECURSIVE SortedByDateDesc(_)
\* sorted(transactions, key=lambda x: x['date'], reverse=True): stable
SortedByDateDesc(txs) ==
    IF txs = <<>> THEN <<>>
    ELSE InsertByDateDesc(SortedByDateDesc(SubSeq(txs, 1, Len(txs) - 1)),
                          txs[Len(txs)])

\* [:10]
RecentSlice(sorted) == SubSeq(sorted, 1, Min(Len(sorted), RecentCount))

\* clean_t with category_name always set, empty when the category is gone
CleanTransaction_AlwaysNamed(t, cats) ==
    [id |-> t.id, amount |-> t.amount, type |-> t.type,
     category_id |-> t.category_id, date |-> IsoFormat(t.date),
     category_name |-> IF InCategoriesDict(cats, t.category_id)
                       THEN CategoriesDictGet(cats, t.category_id).name ELSE ""]

\* clean_t: the date as ISO string again, category_name when the category exists
CleanTransaction(t, cats) ==
    IF InCategoriesDict(cats, t.category_id)
    THEN [id |-> t.id, amount |-> t.amount, type |-> t.type,
          category_id |-> t.category_id, date |-> IsoFormat(t.date),
          category_name |-> CategoriesDictGet(cats, t.category_id).name]
    ELSE [id |-> t.id, amount |-> t.amount, type |-> t.type,
          category_id |-> t.category_id, date |-> IsoFormat(t.date)]

\* clean_recent_transactions
RecentTransactions(txs, cats) ==
    LET recent == RecentSlice(SortedByDateDesc(txs))
    IN  [i \in 1..Len(recent) |-> CleanTransaction(recent[i], cats)]

\* the returned dict
Summary(txs, cats, current_date) ==
    LET current_month == ReplaceDay1(current_date)
    IN  [total_balance |-> Balance(TotalOf(txs, INCOME), TotalOf(txs, EXPENSE)),
         total_income |-> TotalOf(txs, INCOME),
         total_expenses |-> TotalOf(txs, EXPENSE),
         monthly_balance |-> Balance(MonthlyOf(txs, INCOME, current_month),
                                     MonthlyOf(txs, EXPENSE, current_month)),
         monthly_income |-> MonthlyOf(txs, INCOME, current_month),
         monthly_expenses |-> MonthlyOf(txs, EXPENSE, current_month),
         category_spending |-> CategoryData(CategorySpending(txs, current_month), cats),
         recent_transactions |-> RecentTransactions(txs, cats)]

\* GET /dashboard/summary: now() and the read of db.transactions
DashReadTransactions ==
    /\ dash.pc = "idle"
    /\ dash' = [IdleDash EXCEPT
                  !.pc = "categories",
                  !.now = now,
                  !.transactions = ParsedTransactions(transactions)]
    /\ UNCHANGED <<categories, transactions, goals, alerts, nextId, now, reqs, resp>>

\* GET /dashboard/summary: the read of db.categories and the summary
DashReadCategories ==
    /\ dash.pc = "categories"
    /\ dash' = [dash EXCEPT
                  !.pc = "done",
                  !.categories = ToList(categories, CategoriesCap),
                  !.response = Some(Summary(dash.transactions,
                                            ToList(categories, CategoriesCap),
                                            dash.now))]
    /\ UNCHANGED <<categories, transactions, goals, alerts, nextId, now, reqs, resp>>

\* GET /dashboard/summary returns
DashReturn ==
    /\ dash.pc = "done"
    /\ dash' = IdleDash
    /\ resp' = 200
    /\ UNCHANGED <<categories, transactions, goals, alerts, nextId, now, reqs>>

\* the wall clock moves on to a later date
ClockAdvance(d) ==
    /\ DateLess(now, d)
    /\ now' = d
    /\ UNCHANGED <<categories, transactions, goals, alerts, nextId, reqs, dash, resp>>

-----------------------------------------------------------------------------
(* Inputs of the requests.                                                 *)

Nov30 == <<2024, 11, 30>>
Dec01 == <<2024, 12, 1>>
Dec31 == <<2024, 12, 31>>
Jan01 == <<2025, 1, 1>>

CategoryInput(name, enabled, limit) ==
    [name |-> name, type |-> EXPENSE, limit_enabled |-> enabled,
     monthly_limit |-> limit, color |-> DefaultColor]

TxInput(amount, type, category_id, date) ==
    [amount |-> amount, type |-> type, category_id |-> category_id, date |-> date]

\* a client knows the ids the server has handed out, and may send any other string
KnownCategory(category_id) ==
    category_id = UnknownCategory \/ category_id < nextId.categories

-----------------------------------------------------------------------------
(* SpecLimit: one category with every kind of limit, expenses around the   *)
(* thresholds and around the month's ends, two overlapping creations.      *)

LimitCategoryInputs ==
    {CategoryInput("A", e, l) :
        e \in BOOLEAN, l \in {None, Some(0), Some(100), Some(-100)}}

LimitTxInputs ==
    {TxInput(a, EXPENSE, 1, d) : a \in {40, 50, 100, -100}, d \in {Dec01, Dec31, Jan01}}
        \cup {TxInput(100, INCOME, 1, Dec31), TxInput(100, EXPENSE, UnknownCategory, Dec31)}

LimitCreateCategory ==
    /\ nextId.categories = 1
    /\ \E c \in LimitCategoryInputs : CreateCategory(c)

LimitCreateTransaction ==
    /\ nextId.transactions <= MaxTxLimit
    /\ \E r \in Slots, t \in LimitTxInputs :
          KnownCategory(t.category_id) /\ CreateTransaction(r, t)

CheckStep ==
    \E r \in Slots :
       \/ CheckFindCategory(r)
       \/ CheckFindExpenses(r)
       \/ CheckInsertAlert(r)
       \/ CreateTransactionReturn(r)

NextLimit ==
    \/ LimitCreateCategory
    \/ LimitCreateTransaction
    \/ CheckStep

SpecLimit == Init /\ [][NextLimit]_vars

-----------------------------------------------------------------------------
(* SpecBurst: one category with limit 100 and a burst of expenses of 85 and *)
(* 35 in it, created one after the other or overlapping.                   *)

BurstCategoryInputs == {CategoryInput("A", TRUE, Some(100))}

BurstTxInputs == {TxInput(85, EXPENSE, 1, Dec31), TxInput(35, EXPENSE, 1, Dec31)}

BurstCreateCategory ==
    /\ nextId.categories = 1
    /\ \E c \in BurstCategoryInputs : CreateCategory(c)

BurstCreateTransaction ==
    /\ nextId.transactions <= MaxTxBurst
    /\ \E r \in Slots, t \in BurstTxInputs :
          KnownCategory(t.category_id) /\ CreateTransaction(r, t)

NextBurst ==
    \/ BurstCreateCategory
    \/ BurstCreateTransaction
    \/ CheckStep

SpecBurst == Init /\ [][NextBurst]_vars

-----------------------------------------------------------------------------
(* SpecDash: two categories that come and go, incomes and expenses before, *)
(* in and after the current month, and the dashboard read beside them.     *)

\* the client names its first category "A" and the later ones "B"
DashCategoryInputs ==
    {CategoryInput(IF nextId.categories = 1 THEN "A" ELSE "B", FALSE, None)}

DashTxInputs ==
    {TxInput(50, EXPENSE, 1, Dec01), TxInput(30, EXPENSE, 1, Jan01),
     TxInput(0, EXPENSE, 2, Dec31), TxInput(50, EXPENSE, 2, Nov30),
     TxInput(50, EXPENSE, UnknownCategory, Dec31),
     TxInput(200, INCOME, 1, Dec01), TxInput(200, INCOME, 1, Nov30)}

DashCreateCategory ==
    /\ nextId.categories <= MaxCatDash
    /\ \E c \in DashCategoryInputs : CreateCategory(c)

DashDeleteCategory ==
    \E id \in 1..(nextId.categories - 1) :
       FirstIndex(categories, id) # 0 /\ DeleteCategory(id)

DashCreateTransaction ==
    /\ nextId.transactions <= MaxTxDash
    /\ \E t \in DashTxInputs : KnownCategory(t.category_id) /\ CreateTransaction(1, t)

DashCheckStep == CheckFindCategory(1) \/ CreateTransactionReturn(1)

DashClockAdvance == ClockAdvance(Jan01)

NextDash ==
    \/ DashCreateCategory
    \/ DashDeleteCategory
    \/ DashCreateTransaction
    \/ DashCheckStep
    \/ DashReadTransactions
    \/ DashReadCategories
    \/ DashReturn
    \/ DashClockAdvance

SpecDash == Init /\ [][NextDash]_vars

-----------------------------------------------------------------------------
(* SpecRecent: more transactions than the dashboard lists, on two dates.   *)
(* The list is a function of the snapshot alone, so here the client asks   *)
(* for the dashboard between creations, not during one.                    *)

RecentTxInputs == {TxInput(10, INCOME, UnknownCategory, d) : d \in {Dec01, Dec31}}

RecentCreateTransaction ==
    /\ nextId.transactions <= MaxTxRecent
    /\ dash.pc = "idle"
    /\ \E t \in RecentTxInputs : CreateTransaction(1, t)

RecentReturn == CreateTransactionReturn(1)

RecentDashReadTransactions == reqs[1].pc = "idle" /\ DashReadTransactions

NextRecent ==
    \/ RecentCreateTransaction
    \/ RecentReturn
    \/ RecentDashReadTransactions
    \/ DashReadCategories
    \/ DashReturn

SpecRecent == Init /\ [][NextRecent]_vars

-----------------------------------------------------------------------------
(* Spec: the handlers that write categories, transactions and alerts, on   *)
(* found and on missing ids, one creation at a time.  The goal handlers     *)
(* write db.goals alone.                                                   *)

CategoryInputs == {CategoryInput("A", TRUE, Some(100)), CategoryInput("A", FALSE, None)}

TxInputs == {TxInput(100, EXPENSE, 1, Dec31), TxInput(50, INCOME, 1, Dec31)}

GoalInputs ==
    {[target_amount |-> 1000, target_date |-> Some(Jan01)],
     [target_amount |-> 500, target_date |-> None]}

\* the ids of a collection that were handed out, and one that was not
Ids(collection) == 1..nextId[collection]

ApiCreateCategory ==
    /\ nextId.categories <= MaxCat
    /\ \E c \in CategoryInputs : CreateCategory(c)

ApiUpdateCategory ==
    \E id \in Ids("categories"), c \in CategoryInputs : UpdateCategory(id, c)

ApiDeleteCategory == \E id \in Ids("categories") : DeleteCategory(id)

ApiCreateTransaction ==
    /\ nextId.transactions <= MaxTx
    /\ \E t \in TxInputs : KnownCategory(t.category_id) /\ CreateTransaction(1, t)

ApiCheckStep ==
    \/ CheckFindCategory(1)
    \/ CheckFindExpenses(1)
    \/ CheckInsertAlert(1)
    \/ CreateTransactionReturn(1)

ApiUpdateTransaction ==
    \E id \in Ids("transactions"), t \in TxInputs : UpdateTransaction(id, t)

ApiDeleteTransaction == \E id \in Ids("transactions") : DeleteTransaction(id)

ApiCreateGoal ==
    /\ nextId.goals <= MaxGoal
    /\ \E g \in GoalInputs : CreateGoal(g)

ApiUpdateGoal == \E id \in Ids("goals"), g \in GoalInputs : UpdateGoal(id, g)

ApiDeleteGoal == \E id \in Ids("goals") : DeleteGoal(id)

ApiMarkAlertAsRead == \E id \in Ids("alerts") : MarkAlertAsRead(id)

Next ==
    \/ ApiCreateCategory
    \/ ApiUpdateCategory
    \/ ApiDeleteCategory
    \/ ApiCreateTransaction
    \/ ApiCheckStep
    \/ ApiUpdateTransaction
    \/ ApiDeleteTransaction
    \/ ApiMarkAlertAsRead

Spec == Init /\ [][Next]_vars

-----------------------------------------------------------------------------
(* SpecCrud: create, update and delete of categories, transactions and     *)
(* goals and mark-as-read of alerts, each on stored and on missing ids.    *)

CrudCreateCategory ==
    /\ nextId.categories = 1
    /\ \E c \in CategoryInputs : CreateCategory(c)

CrudCreateTransaction ==
    /\ nextId.transactions = 1
    /\ \E t \in TxInputs : KnownCategory(t.category_id) /\ CreateTransaction(1, t)

NextCrud ==
    \/ CrudCreateCategory
    \/ ApiUpdateCategory
    \/ ApiDeleteCategory
    \/ CrudCreateTransaction
    \/ ApiCheckStep
    \/ ApiUpdateTransaction
    \/ ApiDeleteTransaction
    \/ ApiCreateGoal
    \/ ApiUpdateGoal
    \/ ApiDeleteGoal
    \/ ApiMarkAlertAsRead

SpecCrud == Init /\ [][NextCrud]_vars

-----------------------------------------------------------------------------
(* Properties of the limit check.                                          *)

RECURSIVE SumIdx(_, _)
\* the sum of vals[i] over the indices i of S
SumIdx(vals, S) ==
    IF S = {} THEN 0
    ELSE LET i == CHOOSE j \in S : TRUE
         IN  vals[i] + SumIdx(vals, S \ {i})

\* the amounts of a sequence of transaction documents
Amounts(txs) == [i \in 1..Len(txs) |-> txs[i].amount]

\* request r has run its limit check to the end on a category it found
Checked(r) == reqs[r].pc = "done" /\ reqs[r].type = EXPENSE /\ reqs[r].found # None

\* the alerts in the store that carry exactly what request r decided to insert
AlertsOf(r) ==
    {i \in 1..Len(alerts) :
        reqs[r].alert # None /\ alerts[i] = [id |-> alerts[i].id] @@ reqs[r].alert[1]}

\* C1: a limit check on an enabled category with a positive limit, having summed
\* total_spent, inserts exactly one "exceeded" alert when total/limit*100 >= 100,
\* exactly one "warning" alert when 80 <= total/limit*100 < 100, and nothing below 80.
C1_ThresholdDecision ==
    \A r \in Slots :
       (/\ Checked(r)
        /\ reqs[r].found[1].limit_enabled
        /\ reqs[r].found[1].monthly_limit # None
        /\ reqs[r].found[1].monthly_limit[1] > 0)
       => LET total == reqs[r].total_spent
              limit == reqs[r].found[1].monthly_limit[1]
          IN  /\ total * 100 >= 100 * limit =>
                   /\ reqs[r].inserted = 1
                   /\ AlertsOf(r) # {}
                   /\ reqs[r].alert[1].message.variant = "exceeded"
                   /\ reqs[r].alert[1].amount_spent = total
                   /\ reqs[r].alert[1].limit_amount = limit
                   /\ reqs[r].alert[1].percentage.num * limit
                         = total * 100 * reqs[r].alert[1].percentage.den
              /\ (total * 100 >= 80 * limit /\ total * 100 < 100 * limit) =>
                   /\ reqs[r].inserted = 1
                   /\ AlertsOf(r) # {}
                   /\ reqs[r].alert[1].message.variant = "warning"
                   /\ reqs[r].alert[1].percentage.num * limit
                         = total * 100 * reqs[r].alert[1].percentage.den
              /\ total * 100 < 80 * limit =>
                   /\ reqs[r].inserted = 0
                   /\ reqs[r].alert = None

\* C1 witness: a check that summed exactly 80% of a positive limit has inserted
\* its one alert, a warning.
C1_Witness ==
    \E r \in Slots :
       /\ Checked(r)
       /\ reqs[r].found[1].limit_enabled
       /\ reqs[r].found[1].monthly_limit = Some(100)
       /\ reqs[r].total_spent = 80
       /\ reqs[r].inserted = 1
       /\ reqs[r].alert[1].message.variant = "warning"
       /\ Len(alerts) = 1

\* C2: a creation whose check finds the category with limit_enabled false inserts
\* no alert, and no alert of a category that has limit_enabled false is in the
\* store, whatever was spent and whatever monthly_limit holds.
C2_DisabledNeverAlerts ==
    /\ \A r \in Slots :
          (Checked(r) /\ ~reqs[r].found[1].limit_enabled)
          => (reqs[r].inserted = 0 /\ reqs[r].alert = None)
    /\ \A i \in 1..Len(categories) :
          ~categories[i].limit_enabled
          => \A j \in 1..Len(alerts) : alerts[j].category_id # categories[i].id

\* C2 witness: two expenses of 100 each are stored in a disabled category whose
\* monthly_limit is 100, both checks are over, and there is no alert.
C2_Witness ==
    /\ \E i \in 1..Len(categories) :
          /\ ~categories[i].limit_enabled
          /\ categories[i].monthly_limit = Some(100)
          /\ Len(transactions) >= 2
          /\ \A j \in 1..Len(transactions) :
                /\ transactions[j].category_id = categories[i].id
                /\ transactions[j].type = EXPENSE
                /\ transactions[j].amount = 100
    /\ \E r \in Slots : Checked(r) /\ ~reqs[r].found[1].limit_enabled
    /\ \A r \in Slots : reqs[r].pc \in {"idle", "done"}
    /\ alerts = <<>>

\* C3: a check on an enabled category whose monthly_limit is 0 or negative never
\* fails and never produces an alert, whatever amounts are stored.
C3_NonPositiveLimitSilent ==
    \A r \in Slots :
       (/\ reqs[r].found # None
        /\ reqs[r].found[1].limit_enabled
        /\ reqs[r].found[1].monthly_limit # None
        /\ reqs[r].found[1].monthly_limit[1] <= 0)
       => (reqs[r].pc # "error" /\ reqs[r].alert = None /\ reqs[r].inserted = 0)

\* the transactions of category_id that are expenses dated in
\* [first day of d's month, first day of the following month)
InMonthWindow(t, category_id, d) ==
    /\ t.category_id = category_id
    /\ t.type = EXPENSE
    /\ DateGe(FromIsoFormat(t.date), ReplaceDay1(d))
    /\ DateLess(FromIsoFormat(t.date), NextMonthStart(d))

\* C4: the total a check sums for a transaction dated D is the sum of exactly the
\* category's expenses dated in [first of D's month, first of the next month).
C4_HalfOpenMonthWindow ==
    [][\A r \in Slots :
          (reqs[r].pc = "find_expenses" /\ reqs'[r].pc # "find_expenses")
          => reqs'[r].total_spent
                = SumIdx(Amounts(transactions),
                         {i \in 1..Len(transactions) :
                             InMonthWindow(transactions[i], reqs[r].category_id,
                                           reqs[r].date)})]_vars

-----------------------------------------------------------------------------
(* Properties of the dashboard summary.  They are read off a finished      *)
(* request: its response, and the snapshots of db.transactions and         *)
(* db.categories it was computed from.                                     *)

DashDone == dash.pc = "done"
Resp == dash.response[1]
SnapTx == dash.transactions
SnapCats == dash.categories

\* the first day of the month of the request's reference instant
MonthStart == <<dash.now[1], dash.now[2], 1>>

TxOfType(type) == {i \in 1..Len(SnapTx) : SnapTx[i].type = type}

\* date >= first day of the reference month, no upper bound
FromMonthStart == {i \in 1..Len(SnapTx) : ~DateLess(SnapTx[i].date, MonthStart)}

SnapCatIds == {SnapCats[i].id : i \in 1..Len(SnapCats)}

\* C5: total_income and total_expenses are the sums of all income and all expense
\* amounts, total_balance is their difference, and monthly_balance is
\* monthly_income - monthly_expenses.
C5_TotalsAndBalance ==
    DashDone =>
       /\ Resp.total_income = SumIdx(Amounts(SnapTx), TxOfType(INCOME))
       /\ Resp.total_expenses = SumIdx(Amounts(SnapTx), TxOfType(EXPENSE))
       /\ Resp.total_balance = Resp.total_income - Resp.total_expenses
       /\ Resp.monthly_balance = Resp.monthly_income - Resp.monthly_expenses

\* C5 witness: a summary over an income and an expense, neither total zero.
C5_Witness ==
    /\ DashDone
    /\ Resp.total_income > 0
    /\ Resp.total_expenses > 0
    /\ Resp.total_balance # Resp.total_income

\* C6: the monthly figures are the income sum, the expense sum and their difference
\* over exactly the transactions dated on or after the first day of the reference
\* month, future months included.
C6_MonthlyFromMonthStart ==
    DashDone =>
       /\ Resp.monthly_income
             = SumIdx(Amounts(SnapTx), TxOfType(INCOME) \cap FromMonthStart)
       /\ Resp.monthly_expenses
             = SumIdx(Amounts(SnapTx), TxOfType(EXPENSE) \cap FromMonthStart)
       /\ Resp.monthly_balance
             = SumIdx(Amounts(SnapTx), TxOfType(INCOME) \cap FromMonthStart)
                  - SumIdx(Amounts(SnapTx), TxOfType(EXPENSE) \cap FromMonthStart)

\* C6 witness: the snapshot holds an expense dated in a later month, which is
\* counted, and a transaction dated before the month, which is not.
C6_Witness ==
    /\ DashDone
    /\ \E i \in TxOfType(EXPENSE) :
          /\ ~DateLess(SnapTx[i].date, NextMonthStart(dash.now))
          /\ SnapTx[i].amount > 0
          /\ Resp.monthly_expenses = SnapTx[i].amount
    /\ \E i \in 1..Len(SnapTx) :
          /\ DateLess(SnapTx[i].date, MonthStart)
          /\ SnapTx[i].amount > 0

\* the current-month expenses whose category is not in the category collection
Orphans == {i \in (TxOfType(EXPENSE) \cap FromMonthStart) :
               SnapTx[i].category_id \notin SnapCatIds}

\* C8: the spend of a current-month expense whose category is gone is in no
\* category_spending record, is counted in total_expenses and monthly_expenses, and
\* its recent_transactions entry has no category_name.
C8_OrphanSpend ==
    DashDone =>
       /\ SumSeq([i \in 1..Len(Resp.category_spending) |->
                    Resp.category_spending[i].amount])
             = SumIdx(Amounts(SnapTx),
                      (TxOfType(EXPENSE) \cap FromMonthStart) \ Orphans)
       /\ \A k \in 1..Len(Resp.category_spending) :
             \E c \in 1..Len(SnapCats) :
                /\ Resp.category_spending[k].category = SnapCats[c].name
                /\ \E i \in (TxOfType(EXPENSE) \cap FromMonthStart) :
                      SnapTx[i].category_id = SnapCats[c].id
       /\ Resp.monthly_expenses
             = SumSeq([i \in 1..Len(Resp.category_spending) |->
                         Resp.category_spending[i].amount])
                  + SumIdx(Amounts(SnapTx), Orphans)
       /\ Resp.total_expenses = SumIdx(Amounts(SnapTx), TxOfType(EXPENSE))
       /\ \A i \in Orphans :
             \A j \in 1..Len(Resp.recent_transactions) :
                Resp.recent_transactions[j].id = SnapTx[i].id
                => "category_name" \notin DOMAIN Resp.recent_transactions[j]

\* C8 witness: a category was created and deleted, a current-month expense of 50
\* still names it, and the summary lists that expense among the recent ones.
C8_Witness ==
    /\ DashDone
    /\ \E i \in Orphans :
          /\ SnapTx[i].category_id # UnknownCategory
          /\ SnapTx[i].amount = 50
          /\ \E j \in 1..Len(Resp.recent_transactions) :
                Resp.recent_transactions[j].id = SnapTx[i].id
    /\ Resp.category_spending = <<>>

\* the current-month expenses of category id
SpendOf(id) == {i \in (TxOfType(EXPENSE) \cap FromMonthStart) : SnapTx[i].category_id = id}

\* the record category_spending is to hold for the category document c
RecordOf(c) ==
    [category |-> c.name, amount |-> SumIdx(Amounts(SnapTx), SpendOf(c.id)),
     color |-> c.color]

\* category_spending holds RecordOf(c) once for each category of Q, and nothing else
HoldsExactly(Q) ==
    /\ Len(Resp.category_spending) = Cardinality(Q)
    /\ \A c \in Q :
          Cardinality({k \in 1..Len(Resp.category_spending) :
                          Resp.category_spending[k] = RecordOf(SnapCats[c])})
             = Cardinality({d \in Q : RecordOf(SnapCats[d]) = RecordOf(SnapCats[c])})

\* C9 as claimed: one record per existing category whose current-month expenses sum
\* to a nonzero amount, and no record for a category whose sum is zero.
C9_NonzeroSpendOnly ==
    DashDone =>
       HoldsExactly({c \in 1..Len(SnapCats) :
                        SumIdx(Amounts(SnapTx), SpendOf(SnapCats[c].id)) # 0})

\* C9 amended: one record per existing category that has at least one expense dated
\* on or after the first day of the reference month, its amount the sum of those
\* expenses (zero included); a category without such an expense has no record.
C9_OneRecordPerSpendingCategory ==
    DashDone =>
       HoldsExactly({c \in 1..Len(SnapCats) : SpendOf(SnapCats[c].id) # {}})

\* C9 witness: a category with two current-month expenses has one record with
\* their sum.
C9_Witness ==
    /\ DashDone
    /\ \E c \in 1..Len(SnapCats) :
          /\ Cardinality(SpendOf(SnapCats[c].id)) = 2
          /\ \E k \in 1..Len(Resp.category_spending) :
                /\ Resp.category_spending[k] = RecordOf(SnapCats[c])
                /\ Resp.category_spending[k].amount = 80

\* the place in the snapshot of the transaction listed at place j
SnapPos(j) == CHOOSE i \in 1..Len(SnapTx) : SnapTx[i].id = Resp.recent_transactions[j].id

\* the date of the transaction listed at place j
RecentDate(j) == FromIsoFormat(Resp.recent_transactions[j].date)

\* C7: recent_transactions has min(10, number of transactions) entries, each a
\* transaction of the snapshot, in date-descending order, none of them older than a
\* transaction left out, and equal dates in the order of the snapshot.
C7_RecentTransactions ==
    DashDone =>
       LET recent == Resp.recent_transactions
           n == Len(SnapTx)
       IN  /\ Len(recent) = IF n < 10 THEN n ELSE 10
           /\ \A j \in 1..Len(recent) :
                 /\ \E i \in 1..n : SnapTx[i].id = recent[j].id
                 /\ SnapTx[SnapPos(j)].date = RecentDate(j)
                 /\ SnapTx[SnapPos(j)].amount = recent[j].amount
           /\ \A j, k \in 1..Len(recent) :
                 j < k =>
                    /\ recent[j].id # recent[k].id
                    /\ ~DateLess(RecentDate(j), RecentDate(k))
                    /\ RecentDate(j) = RecentDate(k) => SnapPos(j) < SnapPos(k)
           /\ \A i \in 1..n :
                 (\A j \in 1..Len(recent) : recent[j].id # SnapTx[i].id)
                 => \A j \in 1..Len(recent) : ~DateLess(RecentDate(j), SnapTx[i].date)

\* C7 witness: eleven transactions on two dates are in the snapshot, the oldest
\* date first; ten are listed, the latest date on top and ties among them.
C7_Witness ==
    /\ DashDone
    /\ Len(SnapTx) = 11
    /\ Len(Resp.recent_transactions) = 10
    /\ SnapTx[1].date = Dec01
    /\ SnapTx[2].date = Dec31
    /\ SnapTx[3].date = Dec01
    /\ SnapTx[11].date = Dec31
    /\ RecentDate(1) = Dec31
    /\ RecentDate(2) = Dec31
    /\ RecentDate(10) = Dec01

-----------------------------------------------------------------------------
(* Properties of the alert collection.                                     *)

\* C10: an alert once stored stays at its place with its id, category_id, message,
\* amount_spent, limit_amount, percentage and date; the only change to it is is_read
\* going from false to true, in a step that adds no alert; a new alert is unread.
C10_AlertsAppendOnly ==
    [][/\ Len(alerts') >= Len(alerts)
       /\ \A i \in 1..Len(alerts) :
             /\ [alerts'[i] EXCEPT !.is_read = alerts[i].is_read] = alerts[i]
             /\ alerts[i].is_read => alerts'[i].is_read
             /\ alerts'[i].is_read # alerts[i].is_read
                => /\ Len(alerts') = Len(alerts)
                   /\ \A j \in 1..Len(alerts) : j # i => alerts'[j] = alerts[j]
       /\ \A i \in (Len(alerts) + 1)..Len(alerts') : ~alerts'[i].is_read]_vars

\* C10 witness: two alerts are stored, the first one read, the second one, added
\* later, still unread.
C10_Witness ==
    /\ Len(alerts) = 2
    /\ alerts[1].is_read
    /\ ~alerts[2].is_read
    /\ transactions = <<>>
    /\ categories = <<>>

-----------------------------------------------------------------------------
(* Properties of the handlers addressed by id.                             *)

\* the ids of the documents a collection holds
IdsOf(coll) == {coll[i].id : i \in 1..Len(coll)}

\* a collection with the document of that id taken out, the rest in place
Without(coll, id) == SelectSeq(coll, LAMBDA d : d.id # id)

\* the step answers 404 and leaves the four collections as they were
NotFoundNoChange ==
    /\ resp' = 404
    /\ UNCHANGED <<categories, transactions, goals, alerts>>

\* C11: a delete of a stored category, transaction or goal answers 200 and takes
\* exactly the document of that id out of its collection, every other document of
\* every collection staying as it was; an update, a delete or a mark-as-read of an
\* id that is not stored answers 404 and changes no collection.
C11_DeleteExactAndNotFound ==
    [][/\ \A id \in Ids("categories") :
             /\ DeleteCategory(id) =>
                   IF id \in IdsOf(categories)
                   THEN /\ resp' = 200
                        /\ categories' = Without(categories, id)
                        /\ Len(categories') = Len(categories) - 1
                        /\ UNCHANGED <<transactions, goals, alerts>>
                   ELSE NotFoundNoChange
             /\ \A c \in CategoryInputs :
                   UpdateCategory(id, c) /\ id \notin IdsOf(categories)
                      => NotFoundNoChange
       /\ \A id \in Ids("transactions") :
             /\ DeleteTransaction(id) =>
                   IF id \in IdsOf(transactions)
                   THEN /\ resp' = 200
                        /\ transactions' = Without(transactions, id)
                        /\ Len(transactions') = Len(transactions) - 1
                        /\ UNCHANGED <<categories, goals, alerts>>
                   ELSE NotFoundNoChange
             /\ \A t \in TxInputs :
                   UpdateTransaction(id, t) /\ id \notin IdsOf(transactions)
                      => NotFoundNoChange
       /\ \A id \in Ids("goals") :
             /\ DeleteGoal(id) =>
                   IF id \in IdsOf(goals)
                   THEN /\ resp' = 200
                        /\ goals' = Without(goals, id)
                        /\ Len(goals') = Len(goals) - 1
                        /\ UNCHANGED <<categories, transactions, alerts>>
                   ELSE NotFoundNoChange
             /\ \A g \in GoalInputs :
                   UpdateGoal(id, g) /\ id \notin IdsOf(goals)
                      => NotFoundNoChange
       /\ \A id \in Ids("alerts") :
             MarkAlertAsRead(id) /\ id \notin IdsOf(alerts)
                => NotFoundNoChange]_vars

\* C11 witness: the first of two goals was deleted and the second one is still
\* stored; then a request for a missing id was answered 404 while a category, a
\* transaction and an alert are stored.
C11_Witness ==
    /\ nextId.goals = 3
    /\ IdsOf(goals) = {2}
    /\ resp = 404
    /\ Len(categories) = 1
    /\ Len(transactions) = 1
    /\ Len(alerts) = 1

-----------------------------------------------------------------------------
(* Properties of the place where alerts are written.                       *)

\* C12: a step that adds an alert adds one, and it is the insert_alert step of a
\* create_transaction request for an expense whose transaction id was already
\* issued by the insert of the transaction; so no step of any other handler
\* (creation of an income, update or delete of a transaction, create, update or
\* delete of a category) adds an alert, whatever it does to the month's spend.
C12_AlertsOnlyFromExpenseCreation ==
    [][Len(alerts') > Len(alerts) =>
          /\ Len(alerts') = Len(alerts) + 1
          /\ \E r \in Slots :
                /\ reqs[r].pc = "insert_alert"
                /\ reqs'[r].pc = "done"
                /\ reqs[r].type = EXPENSE
                /\ reqs[r].tx \in 1..(nextId.transactions - 1)]_vars

\* C12 witness: the only transaction ever created is stored as an expense of 100
\* in a category whose enabled limit is 100, no request is running and no alert
\* was ever written: the spend reached 100% through an update of the transaction
\* or of the category, not through the check of an expense creation.
C12_Witness ==
    /\ Len(categories) = 1
    /\ LimitUsable(Some(categories[1]))
    /\ categories[1].monthly_limit = Some(100)
    /\ nextId.transactions = 2
    /\ Len(transactions) = 1
    /\ transactions[1].type = EXPENSE
    /\ transactions[1].amount = 100
    /\ transactions[1].category_id = categories[1].id
    /\ reqs[1].pc = "idle"
    /\ nextId.alerts = 1
    /\ alerts = <<>>

-----------------------------------------------------------------------------
(* Properties of a burst of creations.                                     *)

\* C13: alerts are not deduplicated. A limit check on a positive limit that sums a
\* total of at least 80% of it goes on to insert an alert, whatever alerts the
\* store holds; its insert appends one new alert with a fresh id that carries the
\* total it summed, that total as a percentage of the limit, and the "exceeded"
\* text from 100% on and the "warning" text below; the alerts already stored stay,
\* so the store holds as many alerts as inserts were made.
C13_NoDeduplication ==
    /\ [](Len(alerts) = nextId.alerts - 1)
    /\ [][\A r \in Slots :
             /\ (/\ reqs[r].pc = "find_expenses"
                 /\ reqs'[r].pc # "find_expenses"
                 /\ reqs[r].found[1].monthly_limit[1] > 0
                 /\ reqs'[r].total_spent * 100
                       >= 80 * reqs[r].found[1].monthly_limit[1])
                => reqs'[r].pc = "insert_alert"
             /\ (reqs[r].pc = "insert_alert" /\ reqs'[r].pc # "insert_alert")
                => /\ Len(alerts') = Len(alerts) + 1
                   /\ SubSeq(alerts', 1, Len(alerts)) = alerts
                   /\ LET new == alerts'[Len(alerts')]
                          limit == reqs[r].found[1].monthly_limit[1]
                      IN  /\ new.id \notin IdsOf(alerts)
                          /\ new.category_id = reqs[r].category_id
                          /\ new.amount_spent = reqs[r].total_spent
                          /\ new.limit_amount = limit
                          /\ new.percentage =
                                [num |-> reqs[r].total_spent * 100, den |-> limit]
                          /\ new.message.variant =
                                IF reqs[r].total_spent * 100 >= 100 * limit
                                THEN "exceeded" ELSE "warning"]_vars

\* C13 witness: with limit 100, a creation that brought the total to 85 left a
\* warning alert with percentage 85, a later one that brought it to 120 left an
\* exceeded alert with percentage 120, and a third one, overlapping the second,
\* left its own alert too: both requests are still open, each after its insert.
C13_Witness ==
    /\ Len(alerts) = 3
    /\ alerts[1].message.variant = "warning"
    /\ alerts[1].percentage = [num |-> 8500, den |-> 100]
    /\ alerts[2].message.variant = "exceeded"
    /\ alerts[2].percentage = [num |-> 12000, den |-> 100]
    /\ alerts[3].category_id = alerts[2].category_id
    /\ \A r \in Slots : reqs[r].pc = "done" /\ reqs[r].inserted = 1

-----------------------------------------------------------------------------
(* Properties of the order of the write and the check.                     *)

\* an expense of the category dated on or after the first day of d's month
FromMonthStartOf(t, category_id, d) ==
    /\ t.category_id = category_id
    /\ t.type = EXPENSE
    /\ DateGe(FromIsoFormat(t.date), ReplaceDay1(d))

\* the stored expenses, other than the one at index own, that a check for
\* category_id and date d counts
OthersCounted(own, category_id, d) ==
    {i \in 1..Len(transactions) \ {own} :
        FromMonthStartOf(transactions[i], category_id, d)}

====
